---- MODULE Spec2Model ----
(***************************************************************************)
(* Model of the sui_hacker_house_backend core:                             *)
(*   - walrus.Deployer.DeployFiles and extractCID                          *)
(*     (src/internal/sui/walrus/deploy.go)                                 *)
(*   - the completion calls of ai.Generator with their single retry        *)
(*     (src/unnamed/part_001, src/internal/ai/GenerateCodeChanges.go)      *)
(*   - utils.ShouldRetry (src/unnamed/part_004)                            *)
(* Go strings are modelled as sequences of one-character strings so that   *)
(* prefix tests, trimming, splitting and substring search are computed.    *)
(***************************************************************************)
EXTENDS Integers, Sequences, FiniteSets, TLC

(***************************************************************************)
(* Bounds of the model.                                                    *)
(***************************************************************************)
\* chunks a stage process may write to its standard output
MaxOutWrites == 3
\* chunks a stage process may write to its standard error
MaxErrWrites == 1

\* descriptors in the generatedFiles of one SaveFilesDisk call
MaxFiles == 2

(***************************************************************************)
(* Package strings: the functions of Go's strings package that the code    *)
(* uses, over sequences of characters.                                     *)
(***************************************************************************)
IsSpace(c) == c \in {" ", "\n", "\t", "\r"}

HasPrefix(s, p) == Len(s) >= Len(p) /\ SubSeq(s, 1, Len(p)) = p

TrimPrefix(s, p) == IF HasPrefix(s, p) THEN SubSeq(s, Len(p) + 1, Len(s)) ELSE s

HasSuffix(s, p) == Len(s) >= Len(p) /\ SubSeq(s, Len(s) - Len(p) + 1, Len(s)) = p

TrimSuffix(s, p) == IF HasSuffix(s, p) THEN SubSeq(s, 1, Len(s) - Len(p)) ELSE s

SetMin(S) == CHOOSE x \in S : \A y \in S : x <= y

SetMax(S) == CHOOSE x \in S : \A y \in S : x >= y

TrimSpace(s) ==
  LET keep == {i \in 1..Len(s) : ~IsSpace(s[i])}
  IN  IF keep = {} THEN <<>> ELSE SubSeq(s, SetMin(keep), SetMax(keep))

\* strings.Index, 1-based; 0 stands for Go's -1
Index(s, sub) ==
  LET at == {i \in 1..(Len(s) - Len(sub) + 1) : SubSeq(s, i, i + Len(sub) - 1) = sub}
  IN  IF at = {} THEN 0 ELSE SetMin(at)

Contains(s, sub) == Index(s, sub) # 0

\* strings.Fields: the maximal runs of non-space characters
RECURSIVE Fields(_)
Fields(s) ==
  LET keep == {i \in 1..Len(s) : ~IsSpace(s[i])}
  IN  IF keep = {} THEN <<>>
      ELSE LET b == SetMin(keep)
               sp == {i \in b..Len(s) : IsSpace(s[i])}
               e == IF sp = {} THEN Len(s) ELSE SetMin(sp) - 1
           IN  <<SubSeq(s, b, e)>> \o Fields(SubSeq(s, e + 1, Len(s)))

\* strings.Split(s, "\n"): always at least one element
RECURSIVE SplitLines(_)
SplitLines(s) ==
  LET nl == {i \in 1..Len(s) : s[i] = "\n"}
  IN  IF nl = {} THEN <<s>>
      ELSE <<SubSeq(s, 1, SetMin(nl) - 1)>> \o SplitLines(SubSeq(s, SetMin(nl) + 1, Len(s)))

(***************************************************************************)
(* extractCID (deploy.go:105-141)                                          *)
(***************************************************************************)
prefix == <<"P", "u", "b", "l", "i", "s", "h", "e", "d", ":", " ">>
ipfsPrefix == <<"i", "p", "f", "s", ":", "/", "/">>
bafy == <<"b", "a", "f", "y">>
Qm == <<"Q", "m">>

\* Option 1: the whole output starts with "Published: "
Option1Applies(output) == HasPrefix(output, prefix)

Option1(output) == TrimSpace(TrimPrefix(output, prefix))

\* Option 2: the first "ipfs://" of the output, up to the next white space
Option2Applies(output) ==
  /\ Index(output, ipfsPrefix) # 0
  /\ Len(Fields(SubSeq(output, Index(output, ipfsPrefix), Len(output)))) > 0

Option2(output) ==
  LET line == SubSeq(output, Index(output, ipfsPrefix), Len(output))
      parts == Fields(line)
  IN  TrimPrefix(parts[1], ipfsPrefix)

\* Option 3: the last word of the last line, if it looks like a CID
Option3(output) ==
  LET lines == SplitLines(TrimSpace(output))
      lastLine == lines[Len(lines)]
      parts == Fields(lastLine)
  IN  IF Len(parts) > 0
         /\ (HasPrefix(parts[Len(parts)], bafy) \/ HasPrefix(parts[Len(parts)], Qm))
      THEN parts[Len(parts)]
      ELSE <<>>

extractCID(output) ==
  IF Option1Applies(output) THEN Option1(output)
  ELSE IF Option2Applies(output) THEN Option2(output)
  ELSE Option3(output)

(***************************************************************************)
(* State of one Deployer.DeployFiles call (deploy.go:29-101) and of the    *)
(* external processes it runs.                                             *)
(***************************************************************************)
VARIABLES
  pc,              \* position of DeployFiles
  files,           \* the names of the files map passed to DeployFiles
  tempDir,         \* "absent", "present" or "removed"
  written,         \* names written under tempDir
  ctxDone,         \* the caller's context is cancelled or timed out
  proc,            \* the external process of the stage being run
  wrote,           \* what that process really wrote on each descriptor
  builderStdErr,   \* bytes.Buffer of deploy.go:57
  publishStdOut,   \* bytes.Buffer of deploy.go:77
  publishStdErr,   \* bytes.Buffer of deploy.go:77
  invoked,         \* stages whose Run() was called, in order
  spawned,         \* stages whose process was really started, in order
  outcome,         \* per stage: what happened to its process
  cancelledDuring, \* stage whose process was running when ctx became done
  scraped,         \* the text handed to extractCID, if any
  ret              \* (cid, err) returned by DeployFiles

deployVars == <<pc, files, tempDir, written, ctxDone, proc, wrote, builderStdErr,
                publishStdOut, publishStdErr, invoked, spawned, outcome,
                cancelledDuring, scraped, ret>>

\* State of one request to the Generator (declared here, used below)
VARIABLES
  aiOp,     \* the method called
  aiIn,     \* its inputs: embedding model configured, text non-empty
  aiPc,     \* position in the method
  aiCtx,    \* "live", "canceled" or "deadline": the caller's context
  calls,    \* the requests handed to the openai client, in order
  results,  \* what each of them returned: (resp, err)
  aiRet     \* what the method returned

aiVars == <<aiOp, aiIn, aiPc, aiCtx, calls, results, aiRet>>

\* one classification of an error by the two retry checks of the repository
VARIABLES
  classErr,   \* the error passed to the checks
  verdict     \* what each check returned: <<>> before it returns, then <<bool>>

classVars == <<classErr, verdict>>

\* SaveFilesDisk calls (ai.utils.go:105-163) of concurrent requests and the
\* file system they share
VARIABLES
  saveFiles,  \* per request: the generatedFiles passed to SaveFilesDisk
  savePc,     \* per request: "idle", "loop" or "done"
  saveAt,     \* per request: index of the element the range is at
  saveLog,    \* per request: what each iteration did
  dirs,       \* the directories that exist
  disk        \* per path: the file there, its bytes and the request that wrote it

saveVars == <<saveFiles, savePc, saveAt, saveLog, dirs, disk>>

\* one POST /project/generate handled by APIHandler.GenerateSite
VARIABLES
  httpPc,     \* "idle", "bind", "generate" or "done"
  httpBody,   \* the request body: "valid" or "invalid"
  httpResp    \* the response written: status and JSON body

httpVars == <<httpPc, httpBody, httpResp>>

\* one event handled by SuiEventListener.processEvent
VARIABLES
  evPc,       \* position in processEvent
  event,      \* the event: its type, its payload
  evFiles,    \* files returned by GetProjectFiles
  evCid,      \* cid returned by DeployFiles
  evCalls     \* the calls made to the collaborators, in order, with results

eventVars == <<evPc, event, evFiles, evCid, evCalls>>

vars == <<deployVars, aiVars, classVars, saveVars, httpVars, eventVars>>

otherThanDeploy == <<aiVars, classVars, saveVars, httpVars, eventVars>>

otherThanAi == <<deployVars, classVars, saveVars, httpVars, eventVars>>

otherThanClassify == <<deployVars, aiVars, saveVars, httpVars, eventVars>>

otherThanSave == <<deployVars, aiVars, classVars, httpVars, eventVars>>

otherThanHttp == <<deployVars, classVars, saveVars, eventVars>>

otherThanEvent == <<deployVars, aiVars, classVars, saveVars, httpVars>>

Names == {"index.html", "js/app.js"}

Stages == <<"site-builder", "walrus publish">>

\* chunks of text a stage may print on its standard output
OutChunks == { prefix, ipfsPrefix,
               <<"Q", "m", "1">>, <<"b", "a", "f", "y", "2">>,
               <<"0", "x", "a">>,
               <<"l", "o", "g", "\n">>, <<" ">>, <<"\n">> }

\* chunks of text a stage may print on its standard error
ErrChunks == { <<"Q", "m", "9", "\n">> }

NoProc == [stage |-> "none", state |-> "none", code |-> 0, nOut |-> 0, nErr |-> 0]

NoErr == [kind |-> "nil", stage |-> "none", cause |-> "nil", text |-> <<>>]

NoRet == [cid |-> <<>>, err |-> NoErr, returned |-> FALSE]

\* fmt.Errorf("<stage> failed: %w (stderr: %s)", err, stderr)
StageErr(stage, cause, stderr) ==
  [kind |-> "stage failed", stage |-> stage, cause |-> cause, text |-> stderr]

\* fmt.Errorf("failed to ...: %w", err) of the file writing steps
FileErr(kind, name) == [kind |-> kind, stage |-> "none", cause |-> name, text |-> <<>>]

\* fmt.Errorf("failed to extract CID from walrus publish output: %s", output)
ExtractErr(output) ==
  [kind |-> "extract CID", stage |-> "none", cause |-> "nil", text |-> output]

Return(cid, err) == [cid |-> cid, err |-> err, returned |-> TRUE]

\* The buffer a stage's descriptor is connected to: builderCmd.Stderr,
\* publishCmd.Stdout, publishCmd.Stderr; a descriptor left nil is discarded.
CaptureShared(stage, fd) ==
  IF stage = "site-builder"
  THEN IF fd = 2 THEN "builderStdErr" ELSE "discard"
  ELSE "publishStdOut"

Capture(stage, fd) ==
  IF stage = "site-builder"
  THEN IF fd = 2 THEN "builderStdErr" ELSE "discard"
  ELSE IF fd = 1 THEN "publishStdOut" ELSE "publishStdErr"

\* cmd.Start(): the executable cannot be run, or the context is already done
StartError(canStart, done) ==
  IF ~canStart THEN "exec" ELSE IF done THEN "context" ELSE "nil"

\* cmd.Wait(): the error Run() returns once the process has ended
RunErrorIgnored(p) == "nil"

RunError(p) ==
  IF p.state = "killed" THEN "killed"
  ELSE IF p.code # 0 THEN "exit status"
  ELSE "nil"

\* exec.CommandContext: "the provided context is used to kill the process if
\* the context becomes done before the command completes on its own".
OnCancelAbandon(p) == p

OnCancel(p) == IF p.state = "running" THEN [p EXCEPT !.state = "killed"] ELSE p

\* the `return "", fmt.Errorf(...)` of a failed stage: where DeployFiles goes
OnStageErrorRetry(stage) == IF stage = "site-builder" THEN "builder" ELSE "publish"

OnStageError(stage) == "done"

\* deploy.go:87-100: scrape the identifier and build the return value
DeployResultUnchecked(output) == Return(extractCID(output), NoErr)

DeployResult(output) ==
  LET cid == extractCID(output)
  IN  IF cid = <<>> THEN Return(<<>>, ExtractErr(output)) ELSE Return(cid, NoErr)

DeployInit ==
  /\ pc = "start"
  /\ files \in SUBSET Names
  /\ tempDir = "absent"
  /\ written = {}
  /\ ctxDone = FALSE
  /\ proc = NoProc
  /\ wrote = [out |-> <<>>, err |-> <<>>]
  /\ builderStdErr = <<>>
  /\ publishStdOut = <<>>
  /\ publishStdErr = <<>>
  /\ invoked = <<>>
  /\ spawned = <<>>
  /\ outcome = [s \in {"site-builder", "walrus publish"} |-> "not run"]
  /\ cancelledDuring = "none"
  /\ scraped = [given |-> FALSE, text |-> <<>>]
  /\ ret = NoRet

\* every return after MkdirTemp runs the deferred os.RemoveAll(tempDir);
\* ReturnFromKeeping returns without it
ReturnFromKeeping(r) ==
  /\ ret' = r
  /\ pc' = "done"
  /\ UNCHANGED <<tempDir, written>>

ReturnFrom(r) ==
  /\ ret' = r
  /\ pc' = "done"
  /\ tempDir' = "removed"
  /\ written' = {}

\* deploy.go:31-37
MkdirTemp ==
  /\ UNCHANGED otherThanDeploy
  /\ pc = "start"
  /\ \/ /\ tempDir' = "present"
        /\ pc' = "write"
        /\ ret' = ret
     \/ /\ ret' = Return(<<>>, FileErr("temp dir", "walrus-deploy-*"))
        /\ pc' = "done"
        /\ tempDir' = tempDir
  /\ UNCHANGED <<files, written, ctxDone, proc, wrote, builderStdErr, publishStdOut,
                 publishStdErr, invoked, spawned, outcome, cancelledDuring, scraped>>

\* deploy.go:40-49, one iteration of the range over the map (any order)
WriteFile ==
  /\ UNCHANGED otherThanDeploy
  /\ pc = "write"
  /\ \E name \in files \ written :
       \/ /\ written' = written \cup {name}
          /\ UNCHANGED <<pc, tempDir, ret>>
       \/ ReturnFrom(Return(<<>>, FileErr("subdirectories", name)))
       \/ ReturnFrom(Return(<<>>, FileErr("write file", name)))
  /\ UNCHANGED <<files, ctxDone, proc, wrote, builderStdErr, publishStdOut,
                 publishStdErr, invoked, spawned, outcome, cancelledDuring, scraped>>

\* deploy.go:50, the range is exhausted
WriteDone ==
  /\ UNCHANGED otherThanDeploy
  /\ pc = "write"
  /\ files \ written = {}
  /\ pc' = "builder"
  /\ UNCHANGED <<files, tempDir, written, ctxDone, proc, wrote, builderStdErr,
                 publishStdOut, publishStdErr, invoked, spawned, outcome,
                 cancelledDuring, scraped, ret>>

\* Run() of a stage up to the start of its process (deploy.go:56-60, 76-82)
StartStage(stage, here, waiting) ==
  /\ UNCHANGED otherThanDeploy
  /\ pc = here
  /\ invoked' = Append(invoked, stage)
  /\ \E canStart \in BOOLEAN :
       LET e == StartError(canStart, ctxDone)
       IN  IF e = "nil"
           THEN /\ proc' = [stage |-> stage, state |-> "running", code |-> 0,
                            nOut |-> 0, nErr |-> 0]
                /\ wrote' = [out |-> <<>>, err |-> <<>>]
                /\ spawned' = Append(spawned, stage)
                /\ pc' = waiting
                /\ UNCHANGED <<tempDir, written, outcome, ret>>
           ELSE /\ outcome' = [outcome EXCEPT ![stage] = "cannot run"]
                /\ UNCHANGED <<proc, wrote, spawned>>
                /\ IF OnStageError(stage) = "done"
                   THEN ReturnFrom(Return(<<>>, StageErr(stage, e, <<>>)))
                   ELSE pc' = OnStageError(stage) /\ UNCHANGED <<tempDir, written, ret>>
  /\ UNCHANGED <<files, ctxDone, builderStdErr, publishStdOut, publishStdErr,
                 cancelledDuring, scraped>>

BuilderStart == StartStage("site-builder", "builder", "builder_wait")

PublishStart == StartStage("walrus publish", "publish", "publish_wait")

Append2(buf, name, target, chunk) == IF target = name THEN buf \o chunk ELSE buf

\* the running process prints a chunk on descriptor fd
ProcWrite ==
  /\ UNCHANGED otherThanDeploy
  /\ proc.state = "running"
  /\ \E fd \in {1, 2} :
       /\ IF fd = 1 THEN proc.nOut < MaxOutWrites ELSE proc.nErr < MaxErrWrites
       /\ \E chunk \in (IF fd = 1 THEN OutChunks ELSE ErrChunks) :
            LET target == Capture(proc.stage, fd)
            IN  /\ builderStdErr' = Append2(builderStdErr, "builderStdErr", target, chunk)
                /\ publishStdOut' = Append2(publishStdOut, "publishStdOut", target, chunk)
                /\ publishStdErr' = Append2(publishStdErr, "publishStdErr", target, chunk)
                /\ wrote' = IF fd = 1 THEN [wrote EXCEPT !.out = @ \o chunk]
                                      ELSE [wrote EXCEPT !.err = @ \o chunk]
                /\ proc' = IF fd = 1 THEN [proc EXCEPT !.nOut = @ + 1]
                                     ELSE [proc EXCEPT !.nErr = @ + 1]
  /\ UNCHANGED <<pc, files, tempDir, written, ctxDone, invoked, spawned, outcome,
                 cancelledDuring, scraped, ret>>

\* the running process ends on its own with an exit status
ProcExit ==
  /\ UNCHANGED otherThanDeploy
  /\ proc.state = "running"
  /\ \E code \in {0, 1} :
       /\ proc' = [proc EXCEPT !.state = "exited", !.code = code]
       /\ outcome' = [outcome EXCEPT ![proc.stage] =
                        IF code = 0 THEN "exit zero" ELSE "exit non-zero"]
  /\ UNCHANGED <<pc, files, tempDir, written, ctxDone, wrote, builderStdErr,
                 publishStdOut, publishStdErr, invoked, spawned, cancelledDuring,
                 scraped, ret>>

\* the caller cancels the context, or its deadline passes
CtxCancel ==
  /\ UNCHANGED otherThanDeploy
  /\ ~ctxDone
  /\ pc # "done"
  /\ ctxDone' = TRUE
  /\ proc' = OnCancel(proc)
  /\ cancelledDuring' = IF proc.state = "running" THEN proc.stage ELSE cancelledDuring
  /\ outcome' = IF proc'.state = "killed" /\ proc.state = "running"
                THEN [outcome EXCEPT ![proc.stage] = "killed"]
                ELSE outcome
  /\ UNCHANGED <<pc, files, tempDir, written, wrote, builderStdErr, publishStdOut,
                 publishStdErr, invoked, spawned, scraped, ret>>

\* deploy.go:60-64, Run() of site-builder returns
BuilderReturn ==
  /\ UNCHANGED otherThanDeploy
  /\ pc = "builder_wait"
  /\ proc.state \in {"exited", "killed"}
  /\ LET e == RunError(proc)
     IN  IF e = "nil"
         THEN pc' = "publish" /\ UNCHANGED <<tempDir, written, ret>>
         ELSE IF OnStageError("site-builder") = "done"
              THEN ReturnFrom(Return(<<>>, StageErr("site-builder", e, builderStdErr)))
              ELSE pc' = OnStageError("site-builder") /\ UNCHANGED <<tempDir, written, ret>>
  /\ UNCHANGED <<files, ctxDone, proc, wrote, builderStdErr, publishStdOut,
                 publishStdErr, invoked, spawned, outcome, cancelledDuring, scraped>>

\* deploy.go:82-100, Run() of walrus publish returns, the CID is extracted
PublishReturn ==
  /\ UNCHANGED otherThanDeploy
  /\ pc = "publish_wait"
  /\ proc.state \in {"exited", "killed"}
  /\ LET e == RunError(proc)
     IN  IF e = "nil"
         THEN /\ scraped' = [given |-> TRUE, text |-> publishStdOut]
              /\ ReturnFrom(DeployResult(publishStdOut))
         ELSE /\ scraped' = scraped
              /\ IF OnStageError("walrus publish") = "done"
                 THEN ReturnFrom(Return(<<>>, StageErr("walrus publish", e, publishStdErr)))
                 ELSE pc' = OnStageError("walrus publish")
                      /\ UNCHANGED <<tempDir, written, ret>>
  /\ UNCHANGED <<files, ctxDone, proc, wrote, builderStdErr, publishStdOut,
                 publishStdErr, invoked, spawned, outcome, cancelledDuring>>

(***************************************************************************)
(* encoding/json as the generator uses it.  A completion text is a         *)
(* sequence of characters in which a whole JSON document is one element,   *)
(* the name of an entry of JSONDocs; JSONValue gives its parsed value:     *)
(*   [t |-> "null"], [t |-> "num"], [t |-> "str", s |-> ..],                *)
(*   [t |-> "arr", e |-> <<values>>], [t |-> "obj", m |-> <<<<key, value>>>>]*)
(***************************************************************************)
JNull == [t |-> "null"]
JNum == [t |-> "num"]
JStr(x) == [t |-> "str", s |-> x]
JArr(es) == [t |-> "arr", e |-> es]
JObj(ms) == [t |-> "obj", m |-> ms]

\* a file descriptor object as the prompts ask for it
JFile(name, type, content) ==
  JObj(<< <<"filename", JStr(name)>>, <<"type", JStr(type)>>, <<"content", JStr(content)>> >>)

FileA == JFile("index.html", "html", "<h1>")
FileB == JFile("src/App.tsx", "tsx", "App")

JSONDocs ==
  [ arrAB      |-> JArr(<<FileA, FileB>>),
    arrEmpty   |-> JArr(<<>>),
    arrDup     |-> JArr(<< FileA, JFile("index.html", "html", "<h2>") >>),
    arrNoType  |-> JArr(<< JObj(<< <<"content", JStr("b{}")>>,
                                   <<"filename", JStr("style.css")>> >>), FileA >>),
    objA       |-> FileA,
    objNoType  |-> JObj(<< <<"content", JStr("b{}")>>, <<"filename", JStr("style.css")>> >>),
    wrapFiles  |-> JObj(<< <<"files", JArr(<<FileA>>)>> >>),
    wrapBoth   |-> JObj(<< <<"type", JNum>>, <<"result", JArr(<<FileB>>)>>,
                           <<"files", JArr(<<FileA>>)>> >>),
    wrapLater  |-> JObj(<< <<"files", JArr(<<>>)>>, <<"data", JArr(<<FileB>>)>> >>),
    wrapChange |-> JObj(<< <<"content", JNum>>, <<"changes", JArr(<<FileB>>)>> >>),
    wrapNoChanges |-> JObj(<< <<"changes", JArr(<<>>)>>, <<"result", JArr(<<FileA>>)>> >>),
    wrapEmpty  |-> JObj(<< <<"content", JNum>>, <<"files", JArr(<<>>)>> >>),
    arrBadElem |-> JArr(<< JObj(<< <<"filename", JStr("a.txt")>>, <<"content", JNum>> >>) >>),
    num        |-> JNum ]

DocNames == DOMAIN JSONDocs

\* GeneratedFile (part_001 / deploy.go:153-157), zero value
ZeroFile == [Filename |-> "", Type |-> "", Content |-> ""]

\* the result of a json.Unmarshal: the first error and the value stored
UOk(v) == [err |-> "nil", val |-> v]
UFail(e, v) == [err |-> e, val |-> v]

\* json.Unmarshal checks the syntax of the whole text first: white space, one
\* JSON value, white space
ValidJSON(text) ==
  LET t == TrimSpace(text) IN Len(t) = 1 /\ t[1] \in DocNames

JSONValue(text) == JSONDocs[TrimSpace(text)[1]]

\* the struct field a JSON key addresses (the match is case-insensitive;
\* the documents of the model use lower case keys only)
FieldOfNoType(key) ==
  IF key = "filename" THEN "Filename"
  ELSE IF key = "content" THEN "Content"
  ELSE "none"

FieldOf(key) ==
  IF key = "filename" THEN "Filename"
  ELSE IF key = "type" THEN "Type"
  ELSE IF key = "content" THEN "Content"
  ELSE "none"

\* decode the members of an object into a GeneratedFile, in order
RECURSIVE DecodeMembers(_, _)
DecodeMembers(ms, acc) ==
  IF ms = <<>> THEN acc
  ELSE LET key == ms[1][1]
           v == ms[1][2]
           f == FieldOf(key)
           step ==
             IF f = "none" \/ v.t = "null" THEN acc
             ELSE IF v.t = "str" THEN [acc EXCEPT !.val = [@ EXCEPT ![f] = v.s]]
             ELSE [acc EXCEPT !.err = IF @ = "nil" THEN "type" ELSE @]
       IN  DecodeMembers(Tail(ms), step)

\* decode a JSON value into a GeneratedFile that holds `old`
DecodeFile(v, old) ==
  IF v.t = "null" THEN UOk(old)
  ELSE IF v.t = "obj" THEN DecodeMembers(v.m, UOk(old))
  ELSE UFail("type", old)

\* decode the elements of an array into the slice; element i is decoded into
\* the element the slice already holds at i, if any (encoding/json reuses the
\* elements of a non-empty slice without zeroing them)
RECURSIVE DecodeElemsPrepend(_, _, _)
DecodeElemsPrepend(es, old, acc) ==
  IF es = <<>> THEN acc
  ELSE LET d == DecodeFile(es[1], ZeroFile)
       IN  DecodeElemsPrepend(Tail(es), old,
             [err |-> IF acc.err = "nil" THEN d.err ELSE acc.err,
              val |-> <<d.val>> \o acc.val])

RECURSIVE DecodeElems(_, _, _)
DecodeElems(es, old, acc) ==
  IF es = <<>> THEN acc
  ELSE LET i == Len(acc.val) + 1
           d == DecodeFile(es[1], IF i <= Len(old) THEN old[i] ELSE ZeroFile)
       IN  DecodeElems(Tail(es), old,
             [err |-> IF acc.err = "nil" THEN d.err ELSE acc.err,
              val |-> Append(acc.val, d.val)])

\* decode a JSON value into a []GeneratedFile that holds `old`
DecodeFiles(v, old) ==
  IF v.t = "null" THEN UOk(<<>>)
  ELSE IF v.t = "arr" THEN DecodeElems(v.e, old, UOk(<<>>))
  ELSE UFail("type", old)

\* json.Unmarshal([]byte(text), &files) with files holding `old`
UnmarshalFiles(text, old) ==
  IF ~ValidJSON(text) THEN UFail("syntax", old) ELSE DecodeFiles(JSONValue(text), old)

\* json.Unmarshal([]byte(text), &singleFile)
UnmarshalFile(text) ==
  IF ~ValidJSON(text) THEN UFail("syntax", ZeroFile)
  ELSE DecodeFile(JSONValue(text), ZeroFile)

\* json.Unmarshal([]byte(text), &wrapper), wrapper a map[string]json.RawMessage
UnmarshalWrapper(text) ==
  IF ~ValidJSON(text) THEN UFail("syntax", <<>>)
  ELSE LET v == JSONValue(text)
       IN  IF v.t = "null" THEN UOk(<<>>)
           ELSE IF v.t = "obj" THEN UOk(v.m)
           ELSE UFail("type", <<>>)

\* wrapper[key]: the last member of that name, if any
HasKey(ms, key) == \E i \in 1..Len(ms) : ms[i][1] = key

Lookup(ms, key) == ms[SetMax({i \in 1..Len(ms) : ms[i][1] = key})][2]

\* the fence and white space cleaning (part_001:130-133,
\* GenerateCodeChanges.go:55-58)
\* "BQ" stands for the back quote character
fenceJSON == <<"BQ", "BQ", "BQ", "j", "s", "o", "n">>
fence == <<"BQ", "BQ", "BQ">>

CleanOutput(llmOutput) ==
  TrimSpace(TrimSuffix(TrimPrefix(TrimSpace(llmOutput), fenceJSON), fence))

(***************************************************************************)
(* utils.ShouldRetry (part_004:12-36).  An error is its message, and for   *)
(* an *openai.APIError its HTTP status code.                               *)
(***************************************************************************)
NilErr == [nil |-> TRUE, msg |-> <<>>, api |-> FALSE, status |-> 0]

GoErr(msg, api, status) == [nil |-> FALSE, msg |-> msg, api |-> api, status |-> status]

UpperCase == <<"A", "B", "C", "D", "E", "F", "G", "H", "I", "J", "K", "L", "M", "N",
               "O", "P", "Q", "R", "S", "T", "U", "V", "W", "X", "Y", "Z">>
LowerCase == <<"a", "b", "c", "d", "e", "f", "g", "h", "i", "j", "k", "l", "m", "n",
               "o", "p", "q", "r", "s", "t", "u", "v", "w", "x", "y", "z">>

\* strings.ToLower; ToLowerNone leaves the message as it is
ToLowerNone(s) == s

ToLower(s) ==
  [i \in 1..Len(s) |->
     IF \E k \in 1..26 : UpperCase[k] = s[i]
     THEN LowerCase[CHOOSE k \in 1..26 : UpperCase[k] = s[i]]
     ELSE s[i]]

TransientPhrases ==
  { <<"r", "a", "t", "e", " ", "l", "i", "m", "i", "t">>,
    <<"5", "0", "0", " ", "i", "n", "t", "e", "r", "n", "a", "l", " ", "s", "e", "r", "v", "e", "r", " ", "e", "r", "r", "o", "r">>,
    <<"5", "0", "2", " ", "b", "a", "d", " ", "g", "a", "t", "e", "w", "a", "y">>,
    <<"5", "0", "3", " ", "s", "e", "r", "v", "i", "c", "e", " ", "u", "n", "a", "v", "a", "i", "l", "a", "b", "l", "e">>,
    <<"5", "0", "4", " ", "g", "a", "t", "e", "w", "a", "y", " ", "t", "i", "m", "e", "o", "u", "t">>,
    <<"t", "i", "m", "e", "o", "u", "t">>,
    <<"c", "o", "n", "n", "e", "c", "t", "i", "o", "n", " ", "r", "e", "s", "e", "t", " ", "b", "y", " ", "p", "e", "e", "r">>,
    <<"c", "o", "n", "t", "e", "x", "t", " ", "d", "e", "a", "d", "l", "i", "n", "e", " ", "e", "x", "c", "e", "e", "d", "e", "d">> }

ShouldRetry(err) ==
  IF err.nil THEN FALSE
  ELSE LET errMsg == ToLower(err.msg)
       IN  \/ \E phrase \in TransientPhrases : Contains(errMsg, phrase)
           \/ err.api /\ (err.status >= 500 \/ err.status = 429)

\* shouldRetry of the older package ai (src/ai/generator.go:529-553): the
\* same phrases; the status check is commented out
shouldRetry(err) ==
  IF err.nil THEN FALSE
  ELSE LET errMsg == ToLower(err.msg)
       IN  \E phrase \in TransientPhrases : Contains(errMsg, phrase)

\* errors the completion service or the transport may answer with
ErrRateLimit == GoErr(<<"R", "a", "t", "e", " ", "l", "i", "m", "i", "t", " ", "r", "e", "a", "c", "h", "e", "d", " ", "f", "o", "r", " ", "r", "e", "q", "u", "e", "s", "t", "s">>, TRUE, 429)

ErrStatus500 == GoErr(<<"e", "r", "r", "o", "r", ",", " ", "s", "t", "a", "t", "u", "s", " ", "c", "o", "d", "e", ":", " ", "5", "0", "0">>, TRUE, 500)

ErrUnavailable == GoErr(<<"5", "0", "3", " ", "S", "e", "r", "v", "i", "c", "e", " ", "U", "n", "a", "v", "a", "i", "l", "a", "b", "l", "e">>, FALSE, 0)

ErrDeadline == GoErr(<<"c", "o", "n", "t", "e", "x", "t", " ", "d", "e", "a", "d", "l", "i", "n", "e", " ", "e", "x", "c", "e", "e", "d", "e", "d">>, FALSE, 0)

ErrCanceled == GoErr(<<"c", "o", "n", "t", "e", "x", "t", " ", "c", "a", "n", "c", "e", "l", "e", "d">>, FALSE, 0)

ErrUnauthorized == GoErr(<<"4", "0", "1", " ", "I", "n", "c", "o", "r", "r", "e", "c", "t", " ", "A", "P", "I", " ", "k", "e", "y", " ", "p", "r", "o", "v", "i", "d", "e", "d">>, TRUE, 401)

UpstreamErrors == {ErrRateLimit, ErrStatus500, ErrUnavailable, ErrUnauthorized}

(***************************************************************************)
(* The normalisation of the completion text.                               *)
(***************************************************************************)
\* the wrapped-key loop of GenerateSiteAndStore (part_001:157-178); st holds
\* generatedFiles, err and parsedWrapped, and (as the log lines tell) the
\* strategy that produced the result and the strategies tried
RECURSIVE SiteWrappedKeys(_, _, _)
SiteWrappedKeys(keys, cleaned, st) ==
  IF keys = <<>> THEN st
  ELSE LET w == UnmarshalWrapper(cleaned)
       IN  IF w.err = "nil" /\ HasKey(w.val, keys[1])
           THEN LET inner == DecodeFiles(Lookup(w.val, keys[1]), st.files)
                IN  IF inner.err = "nil" /\ Len(inner.val) > 0
                    THEN [st EXCEPT !.files = inner.val, !.err = "nil",
                                    !.parsed = TRUE, !.by = keys[1]]
                    ELSE SiteWrappedKeys(Tail(keys), cleaned,
                                         [st EXCEPT !.files = inner.val])
           ELSE SiteWrappedKeys(Tail(keys), cleaned, st)

siteKeysToTry == <<"files", "result", "code", "data", "output">>

\* part_001:128-188: generatedFiles and err after the three attempts
SiteNormalize(llmOutput) ==
  LET cleaned == CleanOutput(llmOutput)
      asArray == UnmarshalFiles(cleaned, <<>>)
      single == UnmarshalFile(cleaned)
  IN  IF asArray.err = "nil"
      THEN [files |-> asArray.val, err |-> "nil", parsed |-> FALSE,
            by |-> "array", tried |-> <<"array">>]
      ELSE IF single.err = "nil"
      THEN [files |-> <<single.val>>, err |-> "nil", parsed |-> FALSE,
            by |-> "single", tried |-> <<"array", "single">>]
      ELSE SiteWrappedKeys(siteKeysToTry, cleaned,
                           [files |-> asArray.val, err |-> asArray.err, parsed |-> FALSE,
                            by |-> "none", tried |-> <<"array", "single", "wrapped">>])

\* `if errInner == nil { // Allow empty array if LLM correctly returns it`
\* (GenerateCodeChanges.go:70)
ChangesInnerAcceptedNonEmpty(inner) == inner.err = "nil" /\ Len(inner.val) > 0

ChangesInnerAccepted(inner) == inner.err = "nil"

\* the wrapped-key loop of GenerateCodeChanges (GenerateCodeChanges.go:62-78)
RECURSIVE ChangesWrappedKeys(_, _, _)
ChangesWrappedKeys(keys, cleaned, st) ==
  IF keys = <<>> THEN st
  ELSE LET w == UnmarshalWrapper(cleaned)
       IN  IF w.err = "nil" /\ HasKey(w.val, keys[1])
           THEN LET inner == DecodeFiles(Lookup(w.val, keys[1]), st.files)
                IN  IF ChangesInnerAccepted(inner)
                    THEN [st EXCEPT !.files = inner.val, !.err = "nil",
                                    !.parsed = TRUE, !.by = keys[1]]
                    ELSE ChangesWrappedKeys(Tail(keys), cleaned,
                                            [st EXCEPT !.files = inner.val])
           ELSE ChangesWrappedKeys(Tail(keys), cleaned, st)

changesKeysToTry == <<"files", "changes", "result", "code", "output">>

\* GenerateCodeChanges.go:54-83: changedFiles, err and parsed
ChangesNormalize(llmOutput) ==
  LET cleaned == CleanOutput(llmOutput)
      asArray == UnmarshalFiles(cleaned, <<>>)
  IN  IF asArray.err = "nil"
      THEN [files |-> asArray.val, err |-> "nil", parsed |-> TRUE,
            by |-> "array", tried |-> <<"array">>]
      ELSE ChangesWrappedKeys(changesKeysToTry, cleaned,
                              [files |-> asArray.val, err |-> asArray.err, parsed |-> FALSE,
                               by |-> "none", tried |-> <<"array", "wrapped">>])

(***************************************************************************)
(* State of one request to the Generator: GenerateSiteAndStore             *)
(* (part_001:67-213), GenerateCodeChanges (GenerateCodeChanges.go:18-88),  *)
(* GenerateEmbedding (part_001:15-47) and GenerateWithContext              *)
(* (GenerateCodeChanges.go:104-136).                                       *)
(***************************************************************************)
AiOps == {"GenerateSiteAndStore", "GenerateCodeChanges", "GenerateEmbedding",
          "GenerateWithContext"}

nl == <<"\n">>

\* completion texts the service may answer with
ChatContents ==
  { <<"arrAB">>,
    fenceJSON \o nl \o <<"arrAB">> \o nl \o fence,
    fence \o nl \o <<"arrAB">> \o nl \o fence,
    <<"arrEmpty">>,
    <<"arrDup">>,
    <<" ">> \o <<"arrNoType">> \o nl,
    <<"objA">>,
    <<"objNoType">>,
    <<"wrapFiles">>,
    <<"wrapBoth">>,
    <<"wrapLater">>,
    <<"wrapChange">>,
    <<"wrapEmpty">>,
    <<"wrapNoChanges">>,
    <<"arrBadElem">>,
    <<"num">>,
    <<" ", "\n">>,
    <<"n", "o", "t", " ", "j", "s", "o", "n", " ", "a", "t", " ", "a", "l", "l">> }

\* a response: the number of choices (or of embedding data) and the content
\* of the first one (the text, or the vector)
NoResp == [n |-> 0, content |-> <<>>]

ChatResponses == {NoResp, [n |-> 1, content |-> <<>>]}
                   \cup {[n |-> 1, content |-> c] : c \in ChatContents}

EmbedResponses == {NoResp, [n |-> 1, content |-> <<>>], [n |-> 1, content |-> <<1, 2>>]}

Responses(op) == IF op = "GenerateEmbedding" THEN EmbedResponses ELSE ChatResponses

\* the request of the first call of each method
FirstRequest(op) ==
  IF op = "GenerateSiteAndStore"
  THEN [api |-> "chat", model |-> "chatgpt-4o-latest", mode |-> "loose", maxTokens |-> 0]
  ELSE IF op = "GenerateCodeChanges"
  THEN [api |-> "chat", model |-> "gpt-4o", mode |-> "strict", maxTokens |-> 4096]
  ELSE IF op = "GenerateWithContext"
  THEN [api |-> "chat", model |-> "gpt-4o", mode |-> "loose", maxTokens |-> 1500]
  ELSE [api |-> "embeddings", model |-> "embeddingModelID", mode |-> "none", maxTokens |-> 0]

\* the request of the retry (part_001:100-112, GenerateCodeChanges.go:39,
\* part_001:35)
RetryRequestSame(op) == FirstRequest(op)

RetryRequest(op) ==
  IF op = "GenerateSiteAndStore"
  THEN [api |-> "chat", model |-> "gpt-4o", mode |-> "strict", maxTokens |-> 4096]
  ELSE FirstRequest(op)

\* `if err != nil && utils.ShouldRetry(err)`
NeedsRetryAlways(err) == ~err.nil

NeedsRetry(err) == ~err.nil /\ ShouldRetry(err)

\* the call inside the retry branch; GenerateWithContext has it commented
\* out (GenerateCodeChanges.go:123)
HasRetryCall(op) == op # "GenerateWithContext"

\* ctx.Err()
CtxErr(c) == IF c = "deadline" THEN ErrDeadline ELSE ErrCanceled

projectID == <<"u", "u", "i", "d">>

NoAiErr == [kind |-> "nil", cause |-> NilErr]

AiErr(kind, cause) == [kind |-> kind, cause |-> cause]

\* the normalisation was not reached
NotNormalized == [files |-> <<>>, err |-> "nil", parsed |-> FALSE,
                  by |-> "not run", tried |-> <<>>]

NoAiRet == [returned |-> FALSE, val |-> <<>>, files |-> <<>>, err |-> NoAiErr,
            norm |-> NotNormalized]

\* a return of (val or files, err); norm records what the normalisation did
\* before it
AiReturn(val, fs, err) ==
  [returned |-> TRUE, val |-> val, files |-> fs, err |-> err, norm |-> NotNormalized]

Normalized(r, n) == [r EXCEPT !.norm = n]

\* `len(resp.Choices) == 0 || resp.Choices[0].Message.Content == ""`
IsEmptyResponseNoChoices(resp) == resp.n = 0

IsEmptyResponse(resp) == resp.n = 0 \/ resp.content = <<>>

\* `len(generatedFiles) == 0` (part_001:203)
NoFilesGeneratedNever(fs) == FALSE

NoFilesGenerated(fs) == Len(fs) = 0

\* everything after the calls: what the method returns for the last
\* (resp, err) it holds
ResultOf(op, last) ==
  IF ~last.err.nil
  THEN AiReturn(<<>>, <<>>, AiErr("call failed", last.err))
  ELSE IF IsEmptyResponse(last.resp)
  THEN AiReturn(<<>>, <<>>, AiErr("empty response", NilErr))
  ELSE IF op = "GenerateSiteAndStore"
  THEN LET n == SiteNormalize(last.resp.content)
       IN  IF NoFilesGenerated(n.files)
           THEN Normalized(AiReturn(<<>>, <<>>, AiErr("no files", NilErr)), n)
           ELSE Normalized(AiReturn(projectID, n.files, NoAiErr), n)
  ELSE IF op = "GenerateCodeChanges"
  THEN LET n == ChangesNormalize(last.resp.content)
       IN  IF ~n.parsed
           THEN Normalized(AiReturn(<<>>, <<>>, AiErr("parse failed", NilErr)), n)
           ELSE Normalized(AiReturn(<<>>, n.files, NoAiErr), n)
  ELSE AiReturn(last.resp.content, <<>>, NoAiErr)

AiInit ==
  /\ aiOp \in AiOps
  /\ aiIn \in [model : BOOLEAN, text : BOOLEAN]
  /\ (aiOp # "GenerateEmbedding" => aiIn = [model |-> TRUE, text |-> TRUE])
  /\ aiPc = "start"
  /\ aiCtx = "live"
  /\ calls = <<>>
  /\ results = <<>>
  /\ aiRet = NoAiRet

\* no request to the Generator
AiIdle ==
  /\ aiOp = "none"
  /\ aiIn = [model |-> TRUE, text |-> TRUE]
  /\ aiPc = "idle"
  /\ aiCtx = "live"
  /\ calls = <<>>
  /\ results = <<>>
  /\ aiRet = NoAiRet

\* no DeployFiles call
DeployIdle ==
  /\ pc = "idle"
  /\ files = {}
  /\ tempDir = "absent"
  /\ written = {}
  /\ ctxDone = FALSE
  /\ proc = NoProc
  /\ wrote = [out |-> <<>>, err |-> <<>>]
  /\ builderStdErr = <<>>
  /\ publishStdOut = <<>>
  /\ publishStdErr = <<>>
  /\ invoked = <<>>
  /\ spawned = <<>>
  /\ outcome = [s \in {"site-builder", "walrus publish"} |-> "not run"]
  /\ cancelledDuring = "none"
  /\ scraped = [given |-> FALSE, text |-> <<>>]
  /\ ret = NoRet

\* the early returns of GenerateEmbedding (part_001:16-22); the other
\* methods build their prompt
Begin ==
  /\ UNCHANGED otherThanAi
  /\ aiPc = "start"
  /\ IF aiOp = "GenerateEmbedding" /\ ~aiIn.model
     THEN /\ aiRet' = AiReturn(<<>>, <<>>, AiErr("embedding model not configured", NilErr))
          /\ aiPc' = "done"
     ELSE IF aiOp = "GenerateEmbedding" /\ ~aiIn.text
     THEN /\ aiRet' = AiReturn(<<>>, <<>>, NoAiErr)
          /\ aiPc' = "done"
     ELSE /\ aiRet' = aiRet
          /\ aiPc' = "call"
  /\ UNCHANGED <<aiOp, aiIn, aiCtx, calls, results>>

\* one call of the openai client with request req: it answers, fails, or the
\* context ends while it is in flight
ClientCall(req) ==
  /\ calls' = Append(calls, req)
  /\ IF aiCtx # "live"
     THEN /\ results' = Append(results, [resp |-> NoResp, err |-> CtxErr(aiCtx)])
          /\ aiCtx' = aiCtx
     ELSE \/ \E r \in Responses(aiOp) :
               /\ results' = Append(results, [resp |-> r, err |-> NilErr])
               /\ aiCtx' = aiCtx
          \/ \E e \in UpstreamErrors :
               /\ results' = Append(results, [resp |-> NoResp, err |-> e])
               /\ aiCtx' = aiCtx
          \/ \E c \in {"canceled", "deadline"} :
               /\ results' = Append(results, [resp |-> NoResp, err |-> CtxErr(c)])
               /\ aiCtx' = c

\* the first call and the retry test (part_001:79-96, 30-32,
\* GenerateCodeChanges.go:34-36, 107-120)
FirstCall ==
  /\ UNCHANGED otherThanAi
  /\ aiPc = "call"
  /\ ClientCall(FirstRequest(aiOp))
  /\ aiPc' = IF NeedsRetry(results'[Len(results')].err) THEN "backoff" ELSE "finish"
  /\ UNCHANGED <<aiOp, aiIn, aiRet>>

\* time.Sleep returns and the request is issued again
RetryCall ==
  /\ UNCHANGED otherThanAi
  /\ aiPc = "backoff"
  /\ HasRetryCall(aiOp)
  /\ ClientCall(RetryRequest(aiOp))
  /\ aiPc' = "finish"
  /\ UNCHANGED <<aiOp, aiIn, aiRet>>

\* time.Sleep returns and nothing is issued
BackoffOnly ==
  /\ UNCHANGED otherThanAi
  /\ aiPc = "backoff"
  /\ ~HasRetryCall(aiOp)
  /\ aiPc' = "finish"
  /\ UNCHANGED <<aiOp, aiIn, aiCtx, calls, results, aiRet>>

\* the caller's context ends while the method is between two calls
AiCtxCancel ==
  /\ UNCHANGED otherThanAi
  /\ aiCtx = "live"
  /\ aiPc \in {"start", "call", "backoff", "finish"}
  /\ aiCtx' \in {"canceled", "deadline"}
  /\ UNCHANGED <<aiOp, aiIn, aiPc, calls, results, aiRet>>

\* the rest of the method, up to its return
Finish ==
  /\ UNCHANGED otherThanAi
  /\ aiPc = "finish"
  /\ aiRet' = ResultOf(aiOp, results[Len(results)])
  /\ aiPc' = "done"
  /\ UNCHANGED <<aiOp, aiIn, aiCtx, calls, results>>


(***************************************************************************)
(* Package path/filepath over sequences of characters; a cleaned path is   *)
(* the sequence of its elements.                                           *)
(***************************************************************************)
\* strings.Split(s, sep) for a one-character separator
RECURSIVE Split(_, _)
Split(s, sep) ==
  LET at == {i \in 1..Len(s) : s[i] = sep}
  IN  IF at = {} THEN <<s>>
      ELSE <<SubSeq(s, 1, SetMin(at) - 1)>> \o Split(SubSeq(s, SetMin(at) + 1, Len(s)), sep)

\* the elements of filepath.Clean(p) for a relative path: empty and "."
\* elements are dropped, ".." removes the element before it, a leading ".."
\* stays
RECURSIVE CleanElements(_, _)
CleanElements(elems, acc) ==
  IF elems = <<>> THEN acc
  ELSE LET e == elems[1]
       IN  IF e = <<>> \/ e = <<".">> THEN CleanElements(Tail(elems), acc)
           ELSE IF e = <<".", ".">> /\ acc # <<>> /\ acc[Len(acc)] # <<".", ".">>
           THEN CleanElements(Tail(elems), SubSeq(acc, 1, Len(acc) - 1))
           ELSE CleanElements(Tail(elems), Append(acc, e))

Clean(p) == CleanElements(Split(p, "/"), <<>>)

\* filepath.Join(root, name)
Join(root, name) == Clean(root \o <<"/">> \o name)

\* filepath.Dir(name), as characters: all but the last element
Dir(name) ==
  LET at == {i \in 1..Len(name) : name[i] = "/"}
  IN  IF at = {} THEN <<".">> ELSE SubSeq(name, 1, SetMax(at) - 1)

\* filepath.Base(name)
Base(name) ==
  LET at == {i \in 1..Len(name) : name[i] = "/"}
  IN  IF at = {} THEN name ELSE SubSeq(name, SetMax(at) + 1, Len(name))

\* filepath.Ext(name): the suffix from the final dot of the final element
Ext(name) ==
  LET b == Base(name)
      at == {i \in 1..Len(b) : b[i] = "."}
  IN  IF at = {} THEN <<>> ELSE SubSeq(b, SetMax(at), Len(b))

\* utils.DetermineFileType (part_004:39-100)
ExtTypes ==
  { <<<<".", "h", "t", "m", "l">>, "HTML">>,
    <<<<".", "c", "s", "s">>, "CSS">>,
    <<<<".", "j", "s">>, "JavaScript">>,
    <<<<".", "j", "s", "x">>, "JSX">>,
    <<<<".", "t", "s">>, "TypeScript">>,
    <<<<".", "t", "s", "x">>, "TSX">>,
    <<<<".", "j", "s", "o", "n">>, "JSON">>,
    <<<<".", "m", "d">>, "Markdown">>,
    <<<<".", "t", "x", "t">>, "Text">>,
    <<<<".", "y", "a", "m", "l">>, "YAML">>,
    <<<<".", "y", "m", "l">>, "YAML">>,
    <<<<".", "t", "o", "m", "l">>, "TOML">>,
    <<<<".", "s", "h">>, "Shell">>,
    <<<<".", "p", "y">>, "Python">>,
    <<<<".", "g", "o">>, "Go">>,
    <<<<".", "e", "n", "v">>, "Env">>,
    <<<<".", "g", "i", "t", "i", "g", "n", "o", "r", "e">>, "GitIgnore">>,
    <<<<".", "s", "v", "g">>, "SVG">>,
    <<<<".", "p", "n", "g">>, "Image">>,
    <<<<".", "j", "p", "g">>, "Image">>,
    <<<<".", "j", "p", "e", "g">>, "Image">>,
    <<<<".", "g", "i", "f">>, "Image">>,
    <<<<".", "w", "e", "b", "p">>, "Image">> }

BaseTypes ==
  << <<<<"d", "o", "c", "k", "e", "r", "f", "i", "l", "e">>, "Dockerfile">>,
     <<<<"v", "i", "t", "e", ".", "c", "o", "n", "f", "i", "g">>, "Config">>,
     <<<<"t", "a", "i", "l", "w", "i", "n", "d", ".", "c", "o", "n", "f", "i", "g">>, "Config">>,
     <<<<"p", "a", "c", "k", "a", "g", "e", ".", "j", "s", "o", "n">>, "JSON">>,
     <<<<"t", "s", "c", "o", "n", "f", "i", "g", ".", "j", "s", "o", "n">>, "JSON">> >>

RECURSIVE FirstBaseType(_, _)
FirstBaseType(base, k) ==
  IF k > Len(BaseTypes) THEN "Unknown"
  ELSE IF Contains(base, BaseTypes[k][1]) THEN BaseTypes[k][2]
  ELSE FirstBaseType(base, k + 1)

DetermineFileType(filename) ==
  LET lowerFilename == ToLower(filename)
      ext == Ext(lowerFilename)
  IN  IF \E p \in ExtTypes : p[1] = ext
      THEN (CHOOSE p \in ExtTypes : p[1] = ext)[2]
      ELSE FirstBaseType(Base(lowerFilename), 1)

(***************************************************************************)
(* SaveFilesDisk (ai.utils.go:105-163).  The content of a file is a        *)
(* sequence of characters in which a whole JSON text is one element, the   *)
(* name of an entry of JSONTexts.                                          *)
(***************************************************************************)
\* the JSON texts a content may hold and the value each parses to
JSONTexts ==
  [ objCompact |-> "object", objPretty |-> "object", numText |-> "number" ]

\* json.MarshalIndent(value, "", "  ")
MarshalIndent(value) == IF value = "object" THEN <<"objPretty">> ELSE <<"numText">>

\* json.Unmarshal([]byte(content), &jsonData) succeeds: white space, one JSON
\* text, white space
ParsesAsJSON(content) ==
  LET t == TrimSpace(content) IN Len(t) = 1 /\ t[1] \in DOMAIN JSONTexts

dotJSON == <<".", "j", "s", "o", "n">>

\* `fileType == "json" || strings.HasSuffix(strings.ToLower(Filename), ".json")`
IsJSONFileByTypeOnly(fileData, fileType) == fileType = "json"

IsJSONFile(fileData, fileType) ==
  fileType = "json" \/ HasSuffix(ToLower(fileData.Filename), dotJSON)

\* ai.utils.go:108-111
FileTypeOf(fileData) ==
  IF fileData.Type = "" THEN DetermineFileType(fileData.Filename) ELSE fileData.Type

\* ai.utils.go:124-146: the bytes to write
ProcessedContent(fileData) ==
  IF IsJSONFile(fileData, FileTypeOf(fileData)) /\ ParsesAsJSON(fileData.Content)
  THEN MarshalIndent(JSONTexts[TrimSpace(fileData.Content)[1]])
  ELSE fileData.Content

tmp == <<"t", "m", "p">>

Requests == {1, 2}

NoFile == [exists |-> FALSE, bytes |-> <<>>, by |-> 0]

\* the prefixes of a cleaned path: the directories os.MkdirAll creates
Ancestors(path) == {SubSeq(path, 1, k) : k \in 1..Len(path)}

SaveFile(name, type, content) == [Filename |-> name, Type |-> type, Content |-> content]

\* the descriptors a file set may hold
SaveDescriptors ==
  { SaveFile(<<"a", "/", "b", ".", "t", "x", "t">>, "", <<"h", "i">>),
    SaveFile(<<".", ".", "/", "e", "s", "c", "a", "p", "e", ".", "t", "x", "t">>, "txt", <<"x">>),
    SaveFile(<<"d", "a", "t", "a", ".", "j", "s", "o", "n">>, "", <<"objCompact">>),
    SaveFile(<<"D", "a", "t", "a", ".", "J", "S", "O", "N">>, "JSON", <<" ", "objCompact", "\n">>),
    SaveFile(<<"d", "a", "t", "a", ".", "j", "s", "o", "n">>, "data", <<"{", "o", "o", "p", "s">>),
    SaveFile(<<"c", "f", "g">>, "json", <<"objCompact">>),
    SaveFile(<<"a", "/", "b", ".", "t", "x", "t">>, "text", <<"objCompact">>) }

\* the descriptors of two requests that generate the same site skeleton
SharedDescriptors ==
  { SaveFile(<<"i", "n", "d", "e", "x", ".", "h", "t", "m", "l">>, "html", <<"1">>), SaveFile(<<"i", "n", "d", "e", "x", ".", "h", "t", "m", "l">>, "html", <<"2">>) }

SeqsUpTo(S, n) == UNION {[1..k -> S] : k \in 0..n}

\* one SaveFilesDisk call, by request 1
SaveInit ==
  /\ saveFiles \in {[r \in Requests |-> IF r = 1 THEN fs ELSE <<>>] :
                     fs \in SeqsUpTo(SaveDescriptors, MaxFiles)}
  /\ savePc = [r \in Requests |-> IF r = 1 THEN "loop" ELSE "idle"]
  /\ saveAt = [r \in Requests |-> 1]
  /\ saveLog = [r \in Requests |-> <<>>]
  /\ dirs = {}
  /\ disk = <<>>

\* two concurrent requests, each with its own projectID, in SaveFilesDisk
SaveInit2 ==
  /\ saveFiles \in [Requests -> SeqsUpTo(SharedDescriptors, MaxFiles)]
  /\ savePc = [r \in Requests |-> "loop"]
  /\ saveAt = [r \in Requests |-> 1]
  /\ saveLog = [r \in Requests |-> <<>>]
  /\ dirs = {}
  /\ disk = <<>>

\* no SaveFilesDisk call
SaveIdle ==
  /\ saveFiles = [r \in Requests |-> <<>>]
  /\ savePc = [r \in Requests |-> "idle"]
  /\ saveAt = [r \in Requests |-> 1]
  /\ saveLog = [r \in Requests |-> <<>>]
  /\ dirs = {}
  /\ disk = <<>>

\* the file at a path
FileAt(d, path) == IF path \in DOMAIN d THEN d[path] ELSE NoFile

\* the file system after os.WriteFile(path, bytes) by request r
WithFile(d, path, bytes, r) ==
  [q \in DOMAIN d \cup {path} |->
     IF q = path THEN [exists |-> TRUE, bytes |-> bytes, by |-> r] ELSE d[q]]

\* what an iteration leaves in the log
Logged(fileData, path, result, bytes) ==
  [file |-> fileData, path |-> path, result |-> result, bytes |-> bytes]

\* one iteration of the range of request r (ai.utils.go:107-156): MkdirAll,
\* the JSON formatting, WriteFile; a failure is logged and the range goes on
SaveOne(r) ==
  /\ UNCHANGED otherThanSave
  /\ savePc[r] = "loop"
  /\ saveAt[r] <= Len(saveFiles[r])
  /\ LET fileData == saveFiles[r][saveAt[r]]
         fullDirPath == Join(tmp, Dir(fileData.Filename))
         filePath == Join(tmp, fileData.Filename)
         content == ProcessedContent(fileData)
     IN  \/ /\ saveLog' = [saveLog EXCEPT ![r] = Append(@, Logged(fileData, filePath, "mkdir failed", <<>>))]
            /\ UNCHANGED <<dirs, disk>>
         \/ /\ dirs' = dirs \cup Ancestors(fullDirPath)
            /\ \/ /\ saveLog' = [saveLog EXCEPT ![r] = Append(@, Logged(fileData, filePath, "write failed", <<>>))]
                  /\ disk' = disk
               \/ /\ filePath \notin dirs'
                  /\ saveLog' = [saveLog EXCEPT ![r] = Append(@, Logged(fileData, filePath, "saved", content))]
                  /\ disk' = WithFile(disk, filePath, content, r)
  /\ saveAt' = [saveAt EXCEPT ![r] = @ + 1]
  /\ UNCHANGED <<saveFiles, savePc>>

\* the range is exhausted; SaveFilesDisk logs the counts and returns nothing
SaveReturn(r) ==
  /\ UNCHANGED otherThanSave
  /\ savePc[r] = "loop"
  /\ saveAt[r] > Len(saveFiles[r])
  /\ savePc' = [savePc EXCEPT ![r] = "done"]
  /\ UNCHANGED <<saveFiles, saveAt, saveLog, dirs, disk>>

\* SaveFilesDisk has no result (ai.utils.go:105): whatever its iterations
\* did, the caller is told nothing
SaveFilesDiskResult(log) == "none"

SaveStep == \E r \in Requests : SaveOne(r)

SaveEnd == \E r \in Requests : SaveReturn(r)

(***************************************************************************)
(* One error classified by utils.ShouldRetry and by ai.shouldRetry.        *)
(***************************************************************************)
ToUpper(s) ==
  [i \in 1..Len(s) |->
     IF \E k \in 1..26 : LowerCase[k] = s[i]
     THEN UpperCase[CHOOSE k \in 1..26 : LowerCase[k] = s[i]]
     ELSE s[i]]

\* the spellings of a phrase in an error message
Cases == {"lower", "upper", "title"}

Spell(phrase, case) ==
  IF case = "lower" THEN phrase
  ELSE IF case = "upper" THEN ToUpper(phrase)
  ELSE [i \in 1..Len(phrase) |->
          IF i = 1 \/ phrase[i - 1] = " " THEN ToUpper(<<phrase[i]>>)[1] ELSE phrase[i]]

\* messages that hold a recognised phrase, alone or inside a wrapped error
\* ("openai chat completion failed: %w")
PhraseMessages ==
  {Spell(p, c) : p \in TransientPhrases, c \in Cases}
    \cup {<<"c", "a", "l", "l", ":", " ">> \o Spell(p, c) \o <<" ", "(", "1", ")">> :
           p \in TransientPhrases, c \in Cases}

\* messages that hold none of the phrases
PlainMessages ==
  { <<>>,
    <<"a", "u", "t", "h", "o", "r", "i", "z", "a", "t", "i", "o", "n", " ", "d", "e", "n", "i", "e", "d">>,
    ErrUnauthorized.msg,
    ErrCanceled.msg,
    ErrStatus500.msg,
    <<"Y", "o", "u", " ", "e", "x", "c", "e", "e", "d", "e", "d", " ", "y", "o", "u", "r", " ", "q", "u", "o", "t", "a">>,
    <<"t", "i", "m", "e", " ", "o", "u", "t">>,
    <<"5", "0", "3">> }

\* an error is a plain error, or an *openai.APIError with its HTTPStatusCode
ErrorKinds ==
  { [api |-> FALSE, status |-> 0], [api |-> TRUE, status |-> 400],
    [api |-> TRUE, status |-> 401], [api |-> TRUE, status |-> 429],
    [api |-> TRUE, status |-> 500], [api |-> TRUE, status |-> 503] }

PhraseErrors == {GoErr(m, k.api, k.status) : m \in PhraseMessages, k \in ErrorKinds}

PlainErrors == {GoErr(m, k.api, k.status) : m \in PlainMessages, k \in ErrorKinds}

\* the plain errors that carry no 5xx/429 status
UnflaggedErrors == {e \in PlainErrors : ~(e.api /\ (e.status >= 500 \/ e.status = 429))}

ClassifyInit ==
  /\ classErr \in {NilErr} \cup PhraseErrors \cup PlainErrors
  /\ verdict = [utils |-> <<>>, ai |-> <<>>]

\* no error is being classified
ClassifyIdle ==
  /\ classErr = NilErr
  /\ verdict = [utils |-> <<>>, ai |-> <<>>]

\* utils.ShouldRetry(classErr) returns
UtilsShouldRetry ==
  /\ verdict.utils = <<>>
  /\ verdict' = [verdict EXCEPT !.utils = <<ShouldRetry(classErr)>>]
  /\ UNCHANGED <<classErr, otherThanClassify>>

\* ai.shouldRetry(classErr) returns
AiShouldRetry ==
  /\ verdict.ai = <<>>
  /\ verdict' = [verdict EXCEPT !.ai = <<shouldRetry(classErr)>>]
  /\ UNCHANGED <<classErr, otherThanClassify>>

(***************************************************************************)
(* APIHandler.GenerateSite (handlers.go:110-131): the handler binds the    *)
(* body, calls GenerateSiteAndStore and writes the response.               *)
(***************************************************************************)
NoResponse == [status |-> 0, body |-> [key |-> "none", text |-> <<>>]]

Response(status, key, text) == [status |-> status, body |-> [key |-> key, text |-> text]]

\* handlers.go:125: the response to an error of GenerateSiteAndStore
ErrorResponseWithCause(err) == Response(500, "error", <<"Failed to generate site", err.kind>>)

ErrorResponse(err) == Response(500, "error", <<"Failed to generate site">>)

HttpInit ==
  /\ httpPc = "bind"
  /\ httpBody \in {"valid", "invalid"}
  /\ httpResp = NoResponse

\* no request is being handled
HttpIdle ==
  /\ httpPc = "idle"
  /\ httpBody = "valid"
  /\ httpResp = NoResponse

\* the Generator before the handler calls it
AiNotCalled ==
  /\ aiOp = "GenerateSiteAndStore"
  /\ aiIn = [model |-> TRUE, text |-> TRUE]
  /\ aiPc = "idle"
  /\ aiCtx = "live"
  /\ calls = <<>>
  /\ results = <<>>
  /\ aiRet = NoAiRet

\* handlers.go:111-122: c.ShouldBindJSON(&req), then the call
ShouldBindJSON ==
  /\ UNCHANGED otherThanHttp
  /\ httpPc = "bind"
  /\ IF httpBody = "invalid"
     THEN /\ httpResp' = Response(400, "error", <<"Invalid request body: ", "binding error">>)
          /\ httpPc' = "done"
          /\ aiPc' = aiPc
     ELSE /\ httpResp' = httpResp
          /\ httpPc' = "generate"
          /\ aiPc' = "start"
  /\ UNCHANGED <<httpBody, aiOp, aiIn, aiCtx, calls, results, aiRet>>

\* handlers.go:123-130: GenerateSiteAndStore has returned
GenerateSiteRespond ==
  /\ UNCHANGED otherThanHttp
  /\ httpPc = "generate"
  /\ aiPc = "done"
  /\ httpResp' = IF aiRet.err.kind # "nil"
                 THEN ErrorResponse(aiRet.err)
                 ELSE Response(201, "projectId", aiRet.val)
  /\ httpPc' = "done"
  /\ UNCHANGED <<httpBody, aiVars>>

(***************************************************************************)
(* SuiEventListener.processEvent (listener.go.backup:159-245).             *)
(***************************************************************************)
ProjectIDs == {"p1", "p2"}

Deployers == {"0x1", "0x2"}

Cids == {"bafy1", "bafy2"}

\* the events: the type, and the ParsedJson payload, which either cannot be
\* marshalled, does not decode into SiteDeployedEvent, or decodes
Events ==
  [type : {"SiteDeployed", "Other"}, payload : {"unmarshalable", "undecodable", "decodable"},
   ProjectID : ProjectIDs, Deployer : Deployers]

NoEvent == [type |-> "none", payload |-> "undecodable", ProjectID |-> "p1", Deployer |-> "0x1"]

eventObjectType == "SiteDeployed"

Call(fn, args, err) == [fn |-> fn, args |-> args, err |-> err]

EventInit ==
  /\ evPc = "start"
  /\ event \in Events
  /\ evFiles = {}
  /\ evCid = ""
  /\ evCalls = <<>>

\* no event is being processed
EventIdle ==
  /\ evPc = "idle"
  /\ event = NoEvent
  /\ evFiles = {}
  /\ evCid = ""
  /\ evCalls = <<>>

\* listener.go.backup:163-183: the type check, json.Marshal and json.Unmarshal
DecodeEvent ==
  /\ UNCHANGED otherThanEvent
  /\ evPc = "start"
  /\ evPc' = IF event.type # eventObjectType \/ event.payload # "decodable"
             THEN "done" ELSE "files"
  /\ UNCHANGED <<event, evFiles, evCid, evCalls>>

\* listener.go.backup:189-198
GetProjectFiles ==
  /\ UNCHANGED otherThanEvent
  /\ evPc = "files"
  /\ \E fs \in SUBSET Names, failed \in BOOLEAN :
       /\ failed => fs = {}
       /\ evCalls' = Append(evCalls, Call("GetProjectFiles", <<event.ProjectID>>, failed))
       /\ evFiles' = fs
       /\ evPc' = IF failed \/ fs = {} THEN "done" ELSE "deploy"
  /\ UNCHANGED <<event, evCid>>

\* listener.go.backup:201-207: DeployFiles returns an identifier, non-empty,
\* or an error
DeployCall ==
  /\ UNCHANGED otherThanEvent
  /\ evPc = "deploy"
  /\ \E cid \in Cids \cup {""} :
       /\ evCalls' = Append(evCalls, Call("DeployFiles", <<evFiles>>, cid = ""))
       /\ evCid' = cid
       /\ evPc' = IF cid = "" THEN "done" ELSE "policy"
  /\ UNCHANGED <<event, evFiles>>

\* listener.go.backup:220-225: a RegisterPolicy error is logged
AfterRegisterPolicyReturn(failed) == IF failed THEN "done" ELSE "update"

AfterRegisterPolicy(failed) == "update"

\* listener.go.backup:211-225
RegisterPolicy ==
  /\ UNCHANGED otherThanEvent
  /\ evPc = "policy"
  /\ \E failed \in BOOLEAN :
       /\ evCalls' = Append(evCalls, Call("RegisterPolicy", <<event.ProjectID, evCid>>, failed))
       /\ evPc' = AfterRegisterPolicy(failed)
  /\ UNCHANGED <<event, evFiles, evCid>>

\* listener.go.backup:228-231
UpdateProjectCID ==
  /\ UNCHANGED otherThanEvent
  /\ evPc = "update"
  /\ \E failed \in BOOLEAN :
       evCalls' = Append(evCalls, Call("UpdateProjectCID", <<event.ProjectID, evCid>>, failed))
  /\ evPc' = "done"
  /\ UNCHANGED <<event, evFiles, evCid>>

(***************************************************************************)
(* Specifications                                                          *)
(***************************************************************************)
\* one DeployFiles call
Init == DeployInit /\ AiIdle /\ ClassifyIdle /\ SaveIdle /\ HttpIdle /\ EventIdle

Next ==
  \/ MkdirTemp
  \/ WriteFile
  \/ WriteDone
  \/ BuilderStart
  \/ PublishStart
  \/ ProcWrite
  \/ ProcExit
  \/ CtxCancel
  \/ BuilderReturn
  \/ PublishReturn

Spec == Init /\ [][Next]_vars

\* one request to the Generator
InitAI == AiInit /\ DeployIdle /\ ClassifyIdle /\ SaveIdle /\ HttpIdle /\ EventIdle

NextAI ==
  \/ Begin
  \/ FirstCall
  \/ RetryCall
  \/ BackoffOnly
  \/ AiCtxCancel
  \/ Finish

SpecAI == InitAI /\ [][NextAI]_vars

\* one error given to both retry checks
InitClassify == ClassifyInit /\ DeployIdle /\ AiIdle /\ SaveIdle /\ HttpIdle /\ EventIdle

NextClassify ==
  \/ UtilsShouldRetry
  \/ AiShouldRetry

SpecClassify == InitClassify /\ [][NextClassify]_vars

\* one SaveFilesDisk call
InitSave == SaveInit /\ DeployIdle /\ AiIdle /\ ClassifyIdle /\ HttpIdle /\ EventIdle

NextSave ==
  \/ SaveStep
  \/ SaveEnd

SpecSave == InitSave /\ [][NextSave]_vars

\* two concurrent requests in SaveFilesDisk
InitSave2 == SaveInit2 /\ DeployIdle /\ AiIdle /\ ClassifyIdle /\ HttpIdle /\ EventIdle

SpecSave2 == InitSave2 /\ [][NextSave]_vars

\* one POST /project/generate
InitHTTP == HttpInit /\ AiNotCalled /\ DeployIdle /\ ClassifyIdle /\ SaveIdle /\ EventIdle

NextHTTP ==
  \/ ShouldBindJSON
  \/ Begin
  \/ FirstCall
  \/ RetryCall
  \/ AiCtxCancel
  \/ Finish
  \/ GenerateSiteRespond

SpecHTTP == InitHTTP /\ [][NextHTTP]_vars

\* one event given to processEvent
InitEvent == EventInit /\ DeployIdle /\ AiIdle /\ ClassifyIdle /\ SaveIdle /\ HttpIdle

NextEvent ==
  \/ DecodeEvent
  \/ GetProjectFiles
  \/ DeployCall
  \/ RegisterPolicy
  \/ UpdateProjectCID

SpecEvent == InitEvent /\ [][NextEvent]_vars

(***************************************************************************)
(* Properties of DeployFiles                                               *)
(***************************************************************************)
Count(seq, x) == Cardinality({i \in 1..Len(seq) : seq[i] = x})

StageFailed(stage) == outcome[stage] \in {"cannot run", "exit non-zero", "killed"}

\* C1: the stages run in declaration order, site-builder then walrus
\* publish, and when site-builder exits non-zero or cannot be run the publish
\* command is never invoked and the returned error names site-builder.
C1_StagesInOrder ==
  /\ invoked \in {<<>>, <<"site-builder">>, <<"site-builder", "walrus publish">>}
  /\ spawned \in {<<>>, <<"site-builder">>, <<"site-builder", "walrus publish">>}
  /\ StageFailed("site-builder") =>
       /\ Count(invoked, "walrus publish") = 0
       /\ Count(spawned, "walrus publish") = 0
       /\ pc \in {"builder_wait", "done"}
       /\ pc = "done" => /\ ret.err.kind = "stage failed"
                         /\ ret.err.stage = "site-builder"

C1_Witness ==
  /\ pc = "done"
  /\ outcome["site-builder"] = "exit non-zero"
  /\ ret.err.stage = "site-builder"
  /\ invoked = <<"site-builder">>

\* C2: DeployFiles returns a nil error only after walrus publish exited with
\* status zero and a non-empty identifier was extracted from its stdout; a
\* zero exit without an identifier is the extraction error; in every outcome
\* the error is nil exactly when the identifier is non-empty.
C2_SuccessNeedsIdentifier ==
  ret.returned =>
    /\ (ret.err = NoErr) <=> (ret.cid # <<>>)
    /\ ret.err = NoErr =>
         /\ outcome["walrus publish"] = "exit zero"
         /\ outcome["site-builder"] = "exit zero"
         /\ scraped.given
    /\ (scraped.given /\ ret.cid = <<>>) =>
         /\ ret.err.kind = "extract CID"
         /\ outcome["walrus publish"] = "exit zero"

C2_Witness ==
  /\ ret.returned
  /\ outcome["walrus publish"] = "exit zero"
  /\ ret.err.kind = "extract CID"
  /\ ret.cid = <<>>

\* the lines of a text that begin with the labeled marker
MarkedLines(text) ==
  LET lines == SplitLines(text)
  IN  {i \in 1..Len(lines) : HasPrefix(lines[i], prefix)}

FirstMarkedSuffix(text) ==
  LET lines == SplitLines(text)
  IN  TrimSpace(TrimPrefix(lines[SetMin(MarkedLines(text))], prefix))

\* C3: whenever some line of the publish stage's stdout begins with the
\* marker "Published: ", whatever lines come before or after it, the returned
\* identifier is the trimmed suffix of the first such line.
C3_FirstMarkedLine ==
  (ret.returned /\ scraped.given /\ MarkedLines(scraped.text) # {}) =>
    ret.cid = FirstMarkedSuffix(scraped.text)

\* what each convention of extractCID yields on its own
Convention(n, output) ==
  IF n = 1 THEN (IF Option1Applies(output) THEN Option1(output) ELSE <<>>)
  ELSE IF n = 2 THEN (IF Option2Applies(output) THEN Option2(output) ELSE <<>>)
  ELSE Option3(output)

Yielding(output) == {n \in 1..3 : Convention(n, output) # <<>>}

\* C4: extractCID accepts the first convention, in the order labeled prefix,
\* ipfs:// token, last-word heuristic, that yields a non-empty identifier:
\* when some convention yields one, the identifier returned is non-empty and
\* is that of the earliest such convention.
C4_FirstNonEmptyConvention ==
  (ret.returned /\ scraped.given /\ Yielding(scraped.text) # {}) =>
    /\ ret.err = NoErr
    /\ ret.cid = Convention(SetMin(Yielding(scraped.text)), scraped.text)

\* C5: the error of a failed stage carries exactly what that stage's process
\* wrote on its standard error, and the text given to extractCID is exactly
\* what the publish process wrote on its standard output.
C5_StderrVerbatimAndSeparate ==
  /\ (ret.returned /\ ret.err.kind = "stage failed"
        /\ outcome[ret.err.stage] \in {"exit non-zero", "killed"}) =>
       ret.err.text = wrote.err
  /\ scraped.given => scraped.text = wrote.out
  /\ pc = "publish_wait" => /\ publishStdOut = wrote.out
                            /\ publishStdErr = wrote.err

C5_Witness ==
  /\ ret.returned
  /\ ret.err.kind = "stage failed"
  /\ ret.err.stage = "walrus publish"
  /\ outcome["walrus publish"] = "exit non-zero"
  /\ ret.err.text # <<>>
  /\ wrote.out # <<>>

\* C6: when the context becomes done while a stage's process is running, the
\* process is killed, DeployFiles returns the failure of that stage, no later
\* stage is started, and no process is running once DeployFiles has returned.
C6_CancelKillsStage ==
  /\ cancelledDuring # "none" =>
       /\ proc.state = "killed"
       /\ proc.stage = cancelledDuring
       /\ spawned[Len(spawned)] = cancelledDuring
       /\ invoked[Len(invoked)] = cancelledDuring
       /\ pc = "done" => /\ ret.err.kind = "stage failed"
                         /\ ret.err.stage = cancelledDuring
  /\ ctxDone => proc.state # "running"
  /\ pc = "done" => proc.state # "running"

C6_Witness ==
  /\ pc = "done"
  /\ cancelledDuring = "site-builder"
  /\ ret.err.stage = "site-builder"
  /\ proc.state = "killed"

\* C7: within one DeployFiles call each command is invoked at most once,
\* whatever the failure.
C7_NoStageRetried ==
  \A s \in {"site-builder", "walrus publish"} :
    /\ Count(invoked, s) <= 1
    /\ Count(spawned, s) <= 1

C7_Witness ==
  /\ pc = "done"
  /\ ret.err.kind = "stage failed"
  /\ ret.err.stage = "walrus publish"
  /\ Count(invoked, "walrus publish") = 1

(***************************************************************************)
(* Properties of the completion calls                                      *)
(***************************************************************************)
RetryingOps == {"GenerateSiteAndStore", "GenerateCodeChanges", "GenerateEmbedding"}

\* C8: GenerateSiteAndStore, GenerateCodeChanges and GenerateEmbedding call
\* the service at most twice; the second call is issued exactly when the
\* first returned an error that ShouldRetry classifies transient; a permanent
\* first error is returned after one call; the error of a failed second call
\* is returned.
C8_BoundedRetry ==
  aiOp \in RetryingOps =>
    /\ Len(calls) <= 2
    /\ Len(results) = Len(calls)
    /\ Len(calls) = 2 => ShouldRetry(results[1].err)
    /\ (aiPc \in {"finish", "done"} /\ Len(calls) = 1) => ~ShouldRetry(results[1].err)
    /\ (aiPc = "done" /\ Len(calls) = 1 /\ ~results[1].err.nil) =>
         /\ aiRet.err.kind = "call failed"
         /\ aiRet.err.cause = results[1].err
    /\ (aiPc = "done" /\ Len(calls) = 2 /\ ~results[2].err.nil) =>
         /\ aiRet.err.kind = "call failed"
         /\ aiRet.err.cause = results[2].err

C8_Witness ==
  /\ aiOp = "GenerateSiteAndStore"
  /\ aiPc = "done"
  /\ Len(calls) = 2
  /\ results[2].err = ErrUnavailable
  /\ aiRet.err.cause = ErrUnavailable

\* C9: in every operation, GenerateWithContext included, a transient first
\* error makes the request be issued exactly once more, and the caller
\* receives the outcome of that second call.
C9_EveryOperationRetries ==
  (aiPc = "done" /\ Len(results) >= 1 /\ ShouldRetry(results[1].err)) =>
    /\ Len(calls) = 2
    /\ Len(results) = 2
    /\ IF results[2].err.nil
       THEN aiRet.err.kind # "call failed"
       ELSE aiRet.err.cause = results[2].err

\* C10: the generation flow issues its first call in loose mode and its retry
\* in strict mode; the refinement flow issues every call in strict mode; no
\* loose call follows a strict one within a request.
C10_ResponseModes ==
  /\ aiOp = "GenerateSiteAndStore" =>
       \A i \in 1..Len(calls) : calls[i].mode = IF i = 1 THEN "loose" ELSE "strict"
  /\ aiOp = "GenerateCodeChanges" =>
       \A i \in 1..Len(calls) : calls[i].mode = "strict"
  /\ \A i, j \in 1..Len(calls) :
       i < j => ~(calls[i].mode = "strict" /\ calls[j].mode = "loose")

C10_Witness ==
  /\ aiOp = "GenerateSiteAndStore"
  /\ aiPc = "done"
  /\ Len(calls) = 2
  /\ calls[2].mode = "strict"

\* C11: when the service answers without error but with no usable content
\* (no choice, or an empty text in the first choice), GenerateSiteAndStore
\* and GenerateCodeChanges return the empty-response error, which wraps no
\* transport error, return nothing else, never run the normalisation on the
\* answer, and an empty first answer is not followed by a second call.
NormalizingOps == {"GenerateSiteAndStore", "GenerateCodeChanges"}

EmptyAnswer(r) == r.err.nil /\ (r.resp.n = 0 \/ r.resp.content = <<>>)

C11_EmptyAnswerFails ==
  (aiOp \in NormalizingOps /\ Len(results) >= 1) =>
    /\ EmptyAnswer(results[1]) => (Len(calls) = 1 /\ aiPc \in {"finish", "done"})
    /\ (aiPc = "done" /\ EmptyAnswer(results[Len(results)])) =>
         /\ aiRet.err.kind = "empty response"
         /\ aiRet.err.cause = NilErr
         /\ aiRet.val = <<>>
         /\ aiRet.files = <<>>
         /\ aiRet.norm = NotNormalized

C11_Witness ==
  /\ aiOp = "GenerateCodeChanges"
  /\ aiPc = "done"
  /\ Len(calls) = 1
  /\ results[1] = [resp |-> [n |-> 1, content |-> <<>>], err |-> NilErr]
  /\ aiRet.err.kind = "empty response"

(***************************************************************************)
(* Properties of the retry checks                                          *)
(***************************************************************************)
\* C12: ShouldRetry (and the older shouldRetry) returns false for nil, true
\* for every error whose message holds a recognised transient phrase in any
\* letter case, and false for an error that holds none of them and carries
\* no 5xx/429 status, such as a plain authorization-denied message.
Expected(e) ==
  IF e.nil THEN <<FALSE>>
  ELSE IF e \in PhraseErrors THEN <<TRUE>>
  ELSE IF e \in UnflaggedErrors THEN <<FALSE>>
  ELSE <<>>

C12_ShouldRetryPhrases ==
  /\ (verdict.utils # <<>> /\ Expected(classErr) # <<>>) => verdict.utils = Expected(classErr)
  /\ (verdict.ai # <<>> /\ Expected(classErr) # <<>>) => verdict.ai = Expected(classErr)

C12_Witness ==
  /\ classErr = GoErr(Spell(<<"5", "0", "3", " ", "s", "e", "r", "v", "i", "c", "e", " ", "u", "n", "a", "v", "a", "i", "l", "a", "b", "l", "e">>, "title"), FALSE, 0)
  /\ verdict = [utils |-> <<TRUE>>, ai |-> <<TRUE>>]

\* C13: utils.ShouldRetry and ai.shouldRetry return the same boolean for
\* every error, an API error with status 429 or >= 500 and no recognised
\* phrase included.
C13_OneClassifier ==
  (verdict.utils # <<>> /\ verdict.ai # <<>>) => verdict.utils = verdict.ai

(***************************************************************************)
(* Properties of the normalisation                                         *)
(***************************************************************************)
GoFile(name, type, content) == [Filename |-> name, Type |-> type, Content |-> content]

\* the documents that are arrays of file descriptors, and the descriptors
\* they hold, in order
DescriptorArrays ==
  [ arrAB     |-> <<GoFile("index.html", "html", "<h1>"), GoFile("src/App.tsx", "tsx", "App")>>,
    arrEmpty  |-> <<>>,
    arrNoType |-> <<GoFile("style.css", "", "b{}"), GoFile("index.html", "html", "<h1>")>> ]

\* the text answered by the last call
Answer == results[Len(results)].resp.content

Normalizes ==
  /\ aiOp \in NormalizingOps
  /\ aiPc = "done"
  /\ results[Len(results)].err.nil
  /\ Answer # <<>>

\* C14: a completion text that, once fences and white space are cleaned, is a
\* JSON array of file descriptors is normalised, in GenerateSiteAndStore and
\* in GenerateCodeChanges, to exactly those descriptors in the same order,
\* by the direct array parse alone.
C14_DirectArrayRoundTrip ==
  (Normalizes /\ Len(CleanOutput(Answer)) = 1
     /\ CleanOutput(Answer)[1] \in DOMAIN DescriptorArrays) =>
    /\ aiRet.norm.files = DescriptorArrays[CleanOutput(Answer)[1]]
    /\ aiRet.norm.by = "array"
    /\ aiRet.norm.tried = <<"array">>
    /\ aiRet.norm.files # <<>> =>
         (aiRet.err = NoAiErr /\ aiRet.files = aiRet.norm.files)

C14_Witness ==
  /\ aiOp = "GenerateCodeChanges"
  /\ aiPc = "done"
  /\ Answer = fenceJSON \o nl \o <<"arrAB">> \o nl \o fence
  /\ aiRet.files = DescriptorArrays["arrAB"]
  /\ aiRet.norm.tried = <<"array">>

\* the documents that are objects holding descriptor arrays under keys of
\* siteKeysToTry, and the array under the earliest such key whose value is a
\* non-empty descriptor array
WrappedArrays ==
  [ wrapFiles |-> <<GoFile("index.html", "html", "<h1>")>>,
    wrapBoth  |-> <<GoFile("index.html", "html", "<h1>")>>,
    wrapLater |-> <<GoFile("src/App.tsx", "tsx", "App")>> ]

\* C15: in GenerateSiteAndStore a response that is a JSON object holding
\* descriptor arrays under keys of ["files","result","code","data","output"]
\* is normalised to the array under the earliest key whose value is a valid,
\* non-empty descriptor array.
C15_WrappedPrecedence ==
  (Normalizes /\ aiOp = "GenerateSiteAndStore" /\ Len(CleanOutput(Answer)) = 1
     /\ CleanOutput(Answer)[1] \in DOMAIN WrappedArrays) =>
    /\ aiRet.norm.files = WrappedArrays[CleanOutput(Answer)[1]]
    /\ aiRet.files = WrappedArrays[CleanOutput(Answer)[1]]
    /\ aiRet.err = NoAiErr

\* the documents that are one file descriptor object, and the descriptor
DescriptorObjects ==
  [ objA      |-> GoFile("index.html", "html", "<h1>"),
    objNoType |-> GoFile("style.css", "", "b{}") ]

\* C16: in GenerateSiteAndStore a response that is exactly one file
\* descriptor object is normalised to the one-element sequence holding that
\* descriptor; the single-object parse is tried only after the direct array
\* parse failed, and the wrapped keys only after it.
C16_SingleObject ==
  (Normalizes /\ aiOp = "GenerateSiteAndStore") =>
    /\ aiRet.norm.tried \in {<<"array">>, <<"array", "single">>,
                              <<"array", "single", "wrapped">>}
    /\ Len(aiRet.norm.tried) >= 2 => UnmarshalFiles(CleanOutput(Answer), <<>>).err # "nil"
    /\ Len(aiRet.norm.tried) = 3 => UnmarshalFile(CleanOutput(Answer)).err # "nil"
    /\ (Len(CleanOutput(Answer)) = 1 /\ CleanOutput(Answer)[1] \in DOMAIN DescriptorObjects) =>
         /\ aiRet.norm.files = <<DescriptorObjects[CleanOutput(Answer)[1]]>>
         /\ aiRet.norm.by = "single"
         /\ aiRet.norm.tried = <<"array", "single">>
         /\ aiRet.files = aiRet.norm.files
         /\ aiRet.err = NoAiErr

C16_Witness ==
  /\ aiOp = "GenerateSiteAndStore"
  /\ aiPc = "done"
  /\ Answer = <<"objA">>
  /\ aiRet.files = <<GoFile("index.html", "html", "<h1>")>>
  /\ aiRet.norm.by = "single"

\* the cleaned texts on which the direct array, the single object and the
\* wrapped keys all fail: no text, text that is not JSON, a number, and an
\* array whose element has a non-string content
Unparseable ==
  { <<>>,
    <<"n", "o", "t", " ", "j", "s", "o", "n", " ", "a", "t", " ", "a", "l", "l">>,
    <<"num">>,
    <<"arrBadElem">> }

\* C17: when the direct array, the single object and the wrapped keys all
\* fail on the cleaned text, GenerateSiteAndStore returns an error and no
\* project identifier, and GenerateCodeChanges returns an error and no files.
C17_AllStrategiesFail ==
  (Normalizes /\ CleanOutput(Answer) \in Unparseable) =>
    /\ aiRet.err.kind # "nil"
    /\ aiRet.val = <<>>
    /\ aiRet.files = <<>>

\* C18: GenerateSiteAndStore returns either a non-empty project identifier
\* with a nil error, and then the file set has at least one entry, or an
\* empty identifier with an error; the response "[]" fails with the
\* no-files error.
C18_NoPartialReturn ==
  (aiOp = "GenerateSiteAndStore" /\ aiPc = "done") =>
    /\ \/ aiRet.val # <<>> /\ aiRet.err = NoAiErr /\ Len(aiRet.files) >= 1
       \/ aiRet.val = <<>> /\ aiRet.err.kind # "nil"
    /\ (results[Len(results)].err.nil /\ CleanOutput(Answer) = <<"arrEmpty">>) =>
         /\ aiRet.norm.by = "array"
         /\ aiRet.err.kind = "no files"

C18_Witness ==
  /\ aiOp = "GenerateSiteAndStore"
  /\ aiPc = "done"
  /\ Answer = <<"arrEmpty">>
  /\ aiRet.val = <<>>
  /\ aiRet.err.kind = "no files"

\* the documents that are the empty array, or an object whose first key of
\* changesKeysToTry holds the empty array
EmptyFileSets == {"arrEmpty", "wrapEmpty", "wrapLater", "wrapNoChanges"}

\* C19: GenerateCodeChanges returns an empty file list and a nil error when
\* the response is "[]" or an object whose first recognised wrapper key holds
\* an empty array.
C19_EmptyIsSuccess ==
  (Normalizes /\ aiOp = "GenerateCodeChanges" /\ Len(CleanOutput(Answer)) = 1
     /\ CleanOutput(Answer)[1] \in EmptyFileSets) =>
    /\ aiRet.err = NoAiErr
    /\ aiRet.files = <<>>
    /\ aiRet.norm.parsed

C19_Witness ==
  /\ aiOp = "GenerateCodeChanges"
  /\ aiPc = "done"
  /\ Answer = <<"wrapNoChanges">>
  /\ aiRet.err = NoAiErr
  /\ aiRet.files = <<>>
  /\ aiRet.norm.by = "changes"

\* C20: for every response text that the normalisation of
\* GenerateSiteAndStore turns into a non-empty file set, GenerateCodeChanges
\* succeeds and returns the same file set.
C20_SameNormalizer ==
  (Normalizes /\ aiOp = "GenerateCodeChanges"
     /\ SiteNormalize(Answer).err = "nil" /\ Len(SiteNormalize(Answer).files) > 0) =>
    /\ aiRet.err = NoAiErr
    /\ aiRet.files = SiteNormalize(Answer).files

(***************************************************************************)
(* Properties of the materialisation                                       *)
(***************************************************************************)
\* the iterations the requests have made
Iterations == {<<r, i>> : r \in Requests, i \in 1..MaxFiles + 1}

Done(r, i) == i <= Len(saveLog[r])

\* the filename has a ".." element
Escapes(filename) == \E k \in 1..Len(Split(filename, "/")) : Split(filename, "/")[k] = <<".", ".">>

\* C21: no file is written outside the root "tmp": every path written lies
\* under it, and a descriptor whose path has a ".." element is refused before
\* it is written.
C21_NoWriteOutsideRoot ==
  /\ \A path \in DOMAIN disk : Len(path) >= 1 /\ path[1] = tmp
  /\ \A it \in Iterations :
       (Done(it[1], it[2]) /\ Escapes(saveLog[it[1]][it[2]].file.Filename)) =>
         saveLog[it[1]][it[2]].result # "saved"

\* the descriptors whose kind or extension says JSON, and the pretty-printed
\* form of the contents that are JSON
IndicatedJSON ==
  {d \in SaveDescriptors : d.Type = "json" \/ d.Filename \in {<<"d", "a", "t", "a", ".", "j", "s", "o", "n">>, <<"D", "a", "t", "a", ".", "J", "S", "O", "N">>}}

PrettyPrinted(content) ==
  IF content \in {<<"objCompact">>, <<" ", "objCompact", "\n">>, <<"objPretty">>}
  THEN <<"objPretty">>
  ELSE content

\* C22: SaveFilesDisk writes the content of a descriptor as it is, except
\* that a descriptor whose kind or extension says JSON and whose content
\* parses as JSON is written pretty-printed; content said to be JSON that does
\* not parse is written as it is.
C22_VerbatimExceptJSON ==
  \A it \in Iterations :
    (Done(it[1], it[2]) /\ saveLog[it[1]][it[2]].result = "saved") =>
      LET e == saveLog[it[1]][it[2]]
      IN  /\ e.bytes = IF e.file \in IndicatedJSON THEN PrettyPrinted(e.file.Content)
                       ELSE e.file.Content
          /\ FileAt(disk, e.path).exists

C22_Witness ==
  /\ savePc[1] = "done"
  /\ Len(saveLog[1]) = 2
  /\ saveLog[1][1].file = SaveFile(<<"d", "a", "t", "a", ".", "j", "s", "o", "n">>, "", <<"objCompact">>)
  /\ saveLog[1][1].bytes = <<"objPretty">>
  /\ saveLog[1][2].file = SaveFile(<<"d", "a", "t", "a", ".", "j", "s", "o", "n">>, "data", <<"{", "o", "o", "p", "s">>)
  /\ saveLog[1][2].result = "saved"
  /\ FileAt(disk, <<tmp, <<"d", "a", "t", "a", ".", "j", "s", "o", "n">>>>).bytes = <<"{", "o", "o", "p", "s">>

\* C23: when creating a directory or writing a file fails for one
\* descriptor, SaveFilesDisk reports a write failure to its caller, and the
\* files written before it in the same call are still there.
C23_PartialReported ==
  \A it \in Iterations :
    (savePc[it[1]] = "done" /\ Done(it[1], it[2])
       /\ saveLog[it[1]][it[2]].result \in {"mkdir failed", "write failed"}) =>
      /\ SaveFilesDiskResult(saveLog[it[1]]) = "write failure"
      /\ \A j \in 1..it[2] - 1 :
           saveLog[it[1]][j].result = "saved" => FileAt(disk, saveLog[it[1]][j].path).exists

\* C24: when the response repeats a path, the file set produced by the
\* normalisation holds one descriptor for that path, the last occurrence, and
\* the request does not fail.
C24_UniqueByPath ==
  (Normalizes /\ CleanOutput(Answer) = <<"arrDup">>) =>
    /\ aiRet.err = NoAiErr
    /\ aiRet.norm.files = <<GoFile("index.html", "html", "<h2>")>>
    /\ aiRet.files = <<GoFile("index.html", "html", "<h2>")>>

\* C25: two concurrent requests write no path in common: no file saved by
\* one request's SaveFilesDisk is saved, and so overwritten, by the other's.
C25_NoSharedPath ==
  \A i \in 1..Len(saveLog[1]), j \in 1..Len(saveLog[2]) :
    (saveLog[1][i].result = "saved" /\ saveLog[2][j].result = "saved") =>
      saveLog[1][i].path # saveLog[2][j].path

\* C26: whatever error GenerateSiteAndStore returns, GenerateSite answers
\* with status 500 and the one fixed body, which holds neither the error text
\* nor the completion text.
C26_GenericFailure ==
  (httpPc = "done" /\ aiRet.returned /\ aiRet.err # NoAiErr) =>
    httpResp = Response(500, "error", <<"Failed to generate site">>)

C26_Witness ==
  /\ httpPc = "done"
  /\ aiRet.returned
  /\ aiRet.err.kind # "nil"
  /\ aiRet.err.cause = NilErr
  /\ Answer = <<"n", "o", "t", " ", "j", "s", "o", "n", " ", "a", "t", " ", "a", "l", "l">>
  /\ httpResp.status = 500

\* a text made of an opening fence with the language tag, the payload on a
\* line of its own, and the closing fence
Fenced(tag, payload) == fence \o tag \o nl \o <<payload>> \o nl \o fence

\* C27: a valid descriptor array inside a fence, with the tag json or with
\* no tag, normalises to the file set of the array without the fence.
C27_FenceStripped ==
  \A tag \in {<<>>, <<"j", "s", "o", "n">>} : \A d \in DOMAIN DescriptorArrays :
    (Normalizes /\ Answer = Fenced(tag, d)) =>
      /\ aiRet.norm.files = DescriptorArrays[d]
      /\ aiRet.files = DescriptorArrays[d]

\* C28: once the context is cancelled during the backoff wait that follows a
\* transient failure of the service, no further completion request is issued.
C28_NoCallAfterCancel ==
  [][(aiOp \in RetryingOps /\ aiPc = "backoff" /\ aiCtx # "live"
        /\ results[1].err \notin {ErrCanceled, ErrDeadline}) => calls' = calls]_vars

(***************************************************************************)
(* Properties of the workspace of DeployFiles and of processEvent          *)
(***************************************************************************)
\* C29: after DeployFiles has returned, the temporary directory it created
\* and the files written into it are gone, whatever it returned; only when
\* creating the directory failed is there nothing to remove.  Until the
\* return the directory is there.
C29_TempDirRemoved ==
  /\ ret.returned =>
       /\ written = {}
       /\ tempDir = IF ret.err.kind = "temp dir" THEN "absent" ELSE "removed"
  /\ (~ret.returned /\ pc # "start") => tempDir = "present"

C29_Witness ==
  /\ ret.returned
  /\ ret.err.kind = "stage failed"
  /\ files # {}
  /\ tempDir = "removed"
  /\ written = {}

\* the functions processEvent calls, in the order of the code
EventCallOrder == <<"GetProjectFiles", "DeployFiles", "RegisterPolicy", "UpdateProjectCID">>

\* C30: processEvent calls GetProjectFiles, DeployFiles, RegisterPolicy and
\* UpdateProjectCID in this order and each at most once; DeployFiles only with
\* files retrieved without error and non-empty; RegisterPolicy and
\* UpdateProjectCID only after DeployFiles succeeded, with its identifier; a
\* failed RegisterPolicy is followed by UpdateProjectCID; an event of another
\* type or with a payload that does not decode causes no call.
C30_EventOrdering ==
  /\ Len(evCalls) <= 4
  /\ \A i \in 1..Len(evCalls) :
       /\ evCalls[i].fn = EventCallOrder[i]
       /\ i = 1 => evCalls[i].args = <<event.ProjectID>>
       /\ i = 2 => /\ ~evCalls[1].err
                   /\ evFiles # {}
                   /\ evCalls[i].args = <<evFiles>>
       /\ i >= 3 => /\ ~evCalls[2].err
                    /\ evCid \in Cids
                    /\ evCalls[i].args = <<event.ProjectID, evCid>>
  /\ (evPc = "done" /\ Len(evCalls) >= 3) => Len(evCalls) = 4
  /\ (event.type # eventObjectType \/ event.payload # "decodable") => evCalls = <<>>

C30_Witness ==
  /\ evPc = "done"
  /\ Len(evCalls) = 4
  /\ evCalls[3] = Call("RegisterPolicy", <<event.ProjectID, evCid>>, TRUE)
  /\ evCalls[4].fn = "UpdateProjectCID"

====
